---- MODULE Spec2Model ----
(***************************************************************************)
(* Model of the pipeline compiler of ELITR/pipeliner (src/src/pipeliner.py) *)
(*                                                                         *)
(* A pipeline description declares components (addLocalNode), connects     *)
(* them (addEdge, addSimpleEdge) and calls createPipeline, which plans the *)
(* wiring (_sanityCheck, _labelNodes, _createProxies,                      *)
(* _executeLocalResources, _createPipes) and then prints the plan.         *)
(*                                                                         *)
(* Conventions of the model                                                *)
(*  - a Python dict is a sequence of [k, v] records (insertion order);     *)
(*  - a node is identified by its index in `nodes`;                        *)
(*  - an endpoint is a record: Stdin, Stdout or Port(n);                   *)
(*  - an uncaught exception ends the describing script: pc = "raised" is   *)
(*    a final state, err holds the exception.                              *)
(***************************************************************************)
EXTENDS Integers, Sequences, FiniteSets, TLC

\* ------------------------------------------------------------------ bounds
\* Number of components a description declares.
MaxNodes == 3
\* Number of edges a description adds to one graph.
MaxEdges == 2
\* Length of the shared default pool (AVAILABLE_PORTS) in the model.
PoolSize == 6
\* createPipeline calls a description makes on one graph.
MaxRuns == 2
\* Longest chain graph of the labelling specification.
MaxChain == 102

\* Bytes a component writes to one output while the plan runs.
MaxBytes == 4
\* Bytes a pipe between two processes of a job holds.
PipeBuffer == 1
\* Seconds after the interrupt by which every job is to have ended.
GraceWindow == 2

\* -------------------------------------------------------- program constants
\* zfill(2) of _labelNodes.
PadWidth == 2

VARIABLES
  nodes,      \* declared Node objects, in declaration order
  edges,      \* self.graph: the edges in insertion order
  pool,       \* the availablePorts list (shared default AVAILABLE_PORTS)
  allocated,  \* history: every id a pop() of the pool has returned, in order
  taken,      \* history: the ids popped by the current createPipeline call
  order,      \* node order nx.topological_sort yields for the current graph
  commands,   \* the jobs collected by the current createPipeline call
  prevCommands, \* history: the jobs of the previous createPipeline call
  out,        \* lines printed by the current createPipeline call
  pc,         \* position of the describing script
  err,        \* the exception that ended the script, NoError otherwise
  runs,       \* createPipeline calls made on the graph as it is now
  \* the printed plan, once it is run as a shell script
  started,    \* the jobs (indices of commands) whose processes are running
  bound,      \* the endpoints a listener of the plan (nc -lk) is bound to
  listening,  \* the declared ports a component itself is listening on
  conn,       \* per connector <<job, i>>: where its probe loop stands
  split,      \* per job that fans out with tee: bytes in, bytes written per branch
  pipe,       \* per wiring job: bytes in, copied on, logged, delivered
  stalled,    \* the wiring jobs whose log sink accepts no write at present
  interrupted, \* the script has received the interrupt
  elapsed,    \* seconds since the interrupt
  \* octocat, the one-of-N selector (src/src/octocat.py)
  selectFile, \* the content of the SELECT file
  select,     \* main: the input whose queue is being drained
  select2,    \* main: the input to switch to, NoInput if none is pending
  read,       \* per input: its read flag
  queue,      \* per input: the chunks enqueued and not yet taken by main
  preview,    \* per input: the chunks written to its .preview file
  received,   \* history, per input: the chunks its thread has read
  output,     \* the chunks main has written to standard output
  late,       \* more than `interval` has passed since main took `start`
  mainPc,     \* position of octocat's main
  isRunning,  \* per input: its is_running attribute
  thread,     \* per input: where its thread stands
  joining     \* main's position in the loop of joins (index in InputNames)

planVars == <<nodes, edges, pool, allocated, taken, order, commands, prevCommands,
              out, pc, err, runs>>
runVars == <<started, bound, listening, conn, split, pipe, stalled, interrupted,
             elapsed>>
octoVars == <<selectFile, select, select2, read, queue, preview, received, output,
              late, mainPc, isRunning, thread, joining>>
vars == <<nodes, edges, pool, allocated, taken, order, commands, prevCommands,
          out, pc, err, runs, started, bound, listening, conn, split, pipe,
          stalled, interrupted, elapsed, selectFile, select, select2, read,
          queue, preview, received, output, late, mainPc, isRunning, thread,
          joining>>

\* ---------------------------------------------------------------- endpoints
Stdin == [kind |-> "stdin", port |-> 0]
Stdout == [kind |-> "stdout", port |-> 0]
Port(n) == [kind |-> "port", port |-> n]

\* Python None for a missing stdinName / stdoutName (falsy, like "").
NoName == ""

\* ------------------------------------------------------------- dict helpers
Range(s) == {s[i] : i \in DOMAIN s}
Keys(d) == {d[i].k : i \in DOMAIN d}
Get(d, key) == d[CHOOSE i \in DOMAIN d : d[i].k = key].v
Put(d, key, val) ==
  [i \in DOMAIN d |-> IF d[i].k = key THEN [k |-> key, v |-> val] ELSE d[i]]
\* next((k for k, v in d.items() if P), None): first key in insertion order
FirstIndex(S) == CHOOSE i \in S : \A j \in S : i <= j

RECURSIVE Flatten(_)
Flatten(ss) == IF ss = <<>> THEN <<>> ELSE Head(ss) \o Flatten(Tail(ss))

\* flatten(d.values())
Values(d) == Flatten([i \in DOMAIN d |-> d[i].v])

\* ------------------------------------------------------------------- errors
NoError == [op |-> "", kind |-> ""]
Raised(op, kind) == [op |-> op, kind |-> kind]

\* ------------------------------------------------------------------- labels
\* str(n): the decimal digits of n, most significant first.
RECURSIVE Str(_)
Str(n) == IF n < 10 THEN <<n>> ELSE Append(Str(n \div 10), n % 10)

\* s.zfill(w): pad with zeros on the left up to width w, never truncate.
RECURSIVE Zfill(_, _)
Zfill(s, w) == IF Len(s) >= w THEN s ELSE Zfill(<<0>> \o s, w)

\* variant of Label: the counter is not padded
LabelUnpadded(counter) == Str(counter)

\* The label _labelNodes gives the node at position counter.
Label(counter) == Zfill(Str(counter), PadWidth)

\* Python's < on two strings of digits: lexicographic, a proper prefix is less.
RECURSIVE StrLess(_, _)
StrLess(a, b) ==
  IF b = <<>> THEN FALSE
  ELSE IF a = <<>> THEN TRUE
  ELSE IF Head(a) # Head(b) THEN Head(a) < Head(b)
  ELSE StrLess(Tail(a), Tail(b))

\* -------------------------------------------------------------------- nodes
\* Node.__init__: every declared binding becomes a one-element list; raises
\* when the node has neither an input nor an output.
NodeIsEmpty(ingress, egress) == Len(ingress) = 0 /\ Len(egress) = 0

MkNode(name, ingress, egress) ==
  [ name       |-> name,
    ingress    |-> [i \in DOMAIN ingress |-> [k |-> ingress[i].k, v |-> <<ingress[i].v>>]],
    stdinName  |-> IF \E i \in DOMAIN ingress : ingress[i].v = Stdin
                   THEN ingress[FirstIndex({i \in DOMAIN ingress : ingress[i].v = Stdin})].k
                   ELSE NoName,
    egress     |-> [i \in DOMAIN egress |-> [k |-> egress[i].k, v |-> <<egress[i].v>>]],
    stdoutName |-> IF \E i \in DOMAIN egress : egress[i].v = Stdout
                   THEN egress[FirstIndex({i \in DOMAIN egress : egress[i].v = Stdout})].k
                   ELSE NoName,
    label      |-> <<>> ]

\* The components the modelled descriptions declare, in this order (the list
\* is cycled when more are declared): a stdin/stdout filter as in example.py,
\* a component that receives on a port it also sends on (and on stdin) and
\* sends on a second port, and a sink as in example.py.
Catalogue ==
  << [name |-> "filter",
      ingress |-> << [k |-> "in", v |-> Stdin] >>,
      egress  |-> << [k |-> "out", v |-> Stdout] >>],
     [name |-> "router",
      ingress |-> << [k |-> "in", v |-> Port(5000)], [k |-> "in2", v |-> Stdin] >>,
      egress  |-> << [k |-> "out", v |-> Port(5000)], [k |-> "out2", v |-> Port(5001)] >>],
     [name |-> "sink",
      ingress |-> << [k |-> "in", v |-> Stdin] >>,
      egress  |-> << >>] >>

Declaration(i) == Catalogue[((i - 1) % Len(Catalogue)) + 1]

EmptyDeclaration == [name |-> "empty", ingress |-> << >>, egress |-> << >>]

\* The edge types addEdge supports.
EdgeTypes == {"binary", "text", "none"}

\* What the modelled descriptions pass to addEdge: as output name a declared
\* egress name or an ingress name, as input name a declared ingress name or
\* an egress name, as type the default, "binary" or the unsupported "json".
OutputArgs == {"out", "out2", "in"}
InputArgs == {"in", "in2", "out"}
TypeArgs == {"text", "binary", "json"}

\* ---------------------------------------------------------------- variants
\* Each variant below is the definition that follows it with one slip of
\* the kind the code could contain; the properties at the end of the module
\* hold of the definition and fail of its variant.

\* ----------------------------------------------------------- graph assembly
\* variant of AddEdgeError: the input name is not checked
AddEdgeErrorInputUnchecked(source, sourceOutput, target, targetInput, type) ==
  IF sourceOutput \notin Keys(nodes[source].egress) THEN "UnknownEgress"
  ELSE IF type \notin EdgeTypes THEN "UnsupportedEdgeType"
  ELSE ""

\* addEdge's three checks, in the order of the code; "" when the edge is added.
AddEdgeError(source, sourceOutput, target, targetInput, type) ==
  IF sourceOutput \notin Keys(nodes[source].egress) THEN "UnknownEgress"
  ELSE IF targetInput \notin Keys(nodes[target].ingress) THEN "UnknownIngress"
  ELSE IF type \notin EdgeTypes THEN "UnsupportedEdgeType"
  ELSE ""

\* the edge record graph.add_edge stores
MkEdge(source, sourceOutput, target, targetInput, type) ==
  [ source |-> source, target |-> target,
    from |-> sourceOutput, to |-> targetInput,
    name |-> sourceOutput \o "2" \o targetInput,
    type |-> type ]

\* ------------------------------------------------------------ graph queries
\* (networkx.MultiDiGraph, as far as the planner reads it)
\* the indices 1..n as a sequence
Indices(n) == [i \in 1..n |-> i]

\* s without the later occurrences of its elements
Dedup(s) ==
  LET First(i) == \A j \in 1..(i - 1) : s[j] # s[i]
      keep == SelectSeq(Indices(Len(s)), First)
  IN [k \in DOMAIN keep |-> s[keep[k]]]

\* graph.nodes: add_edge(u, v) inserts u, then v, when they are new.
GraphNodes(E) ==
  Dedup([i \in 1..(2 * Len(E)) |->
           IF i % 2 = 1 THEN E[(i + 1) \div 2].source ELSE E[i \div 2].target])

InEdges(E, n) == {i \in DOMAIN E : E[i].target = n}
InDegree(E, n) == Cardinality(InEdges(E, n))
OutDegree(E, n) == Cardinality({i \in DOMAIN E : E[i].source = n})

\* the set S of edge indices as a sequence, in the order Before
Sorted(S, Before(_, _)) ==
  [k \in 1..Cardinality(S) |->
     CHOOSE i \in S : Cardinality({j \in S : j = i \/ Before(j, i)}) = k]

\* the first edge of E from n to m: the successors of n are kept in the
\* order of these edges
FirstEdge(E, n, m) == FirstIndex({i \in DOMAIN E : E[i].source = n /\ E[i].target = m})

\* graph.out_edges(n): by successor in the order the successors were first
\* connected, parallel edges in insertion order.
OutEdges(E, n) ==
  LET Before(j, i) ==
        \/ FirstEdge(E, n, E[j].target) < FirstEdge(E, n, E[i].target)
        \/ E[j].target = E[i].target /\ j < i
  IN Sorted({i \in DOMAIN E : E[i].source = n}, Before)

\* graph.edges: the out-edges of every node, in node order.
GraphEdges(E) ==
  LET gn == GraphNodes(E)
      Rank(n) == FirstIndex({j \in DOMAIN gn : gn[j] = n})
      Before(j, i) ==
        \/ Rank(E[j].source) < Rank(E[i].source)
        \/ /\ E[j].source = E[i].source
           /\ \/ FirstEdge(E, E[j].source, E[j].target) < FirstEdge(E, E[i].source, E[i].target)
              \/ E[j].target = E[i].target /\ j < i
  IN Sorted(DOMAIN E, Before)

\* nx.topological_sort is a generator: it yields, in an order the library
\* chooses, a node whose predecessors have all been yielded, and raises
\* NetworkXUnfeasible once no such node is left while nodes remain (a cycle,
\* a self-loop).  Ready is what it may yield after `done`.
Ready(E, done) ==
  {v \in Range(GraphNodes(E)) \ Range(done) :
     \A i \in DOMAIN E : E[i].target = v => E[i].source \in Range(done)}

\* --------------------------------------------------------- endpoint allocator
\* variant of PoolAfter: the ids are read off the end without being removed
PoolAfterKeeps(p, m) == p

\* What availablePorts holds after m pop() calls.
PoolAfter(p, m) == SubSeq(p, 1, Len(p) - m)

\* k pop() calls in a row on the planner state st: the ids come off the end
\* of the list; the pop on an empty list raises IndexError after the earlier
\* pops have already shortened the list.
PopN(st, k) ==
  LET n == Len(st.pool)
      m == IF k <= n THEN k ELSE n
      got == [i \in 1..m |-> st.pool[n - i + 1]]
  IN [st EXCEPT !.pool = PoolAfter(st.pool, m),
                !.allocated = @ \o got,
                !.taken = @ \o got,
                !.got = [i \in 1..m |-> Port(got[i])],
                !.err = IF k > n THEN Raised("createPipeline", "ExhaustedPool") ELSE @]

\* --------------------------------------------------------------------- jobs
\* One emitted shell job: the endpoints it listens on (nc -lk), the
\* endpoints it connects to (nc after the nc -z probe) and the file it logs to.
Job(kind, node, edge, listen, connect, log) ==
  [kind |-> kind, node |-> node, edge |-> edge,
   listen |-> listen, connect |-> connect, log |-> log]

DigitChar == <<"0", "1", "2", "3", "4", "5", "6", "7", "8", "9">>

RECURSIVE LabelText(_)
LabelText(l) == IF l = <<>> THEN "" ELSE DigitChar[Head(l) + 1] \o LabelText(Tail(l))

\* -------------------------------------------------------------- _sanityCheck
\* variant of MultipleIncoming: the in-edges are told apart by their source
MultipleIncomingBySource(E, n) ==
  /\ InDegree(E, n) > 1
  /\ Cardinality({E[i].source : i \in InEdges(E, n)}) < InDegree(E, n)

MultipleIncoming(E, n) ==
  /\ InDegree(E, n) > 1
  /\ Cardinality({E[i].to : i \in InEdges(E, n)}) < InDegree(E, n)

SanityCheckFails(E) == \E n \in Range(GraphNodes(E)) : MultipleIncoming(E, n)

\* ------------------------------------------------------------ planner state
\* What one planning step reads and writes: the nodes' bindings, the pool and
\* its histories, the jobs the step has collected, the exception it raised.
Planner(ns, p, al, tk) ==
  [nodes |-> ns, pool |-> p, allocated |-> al, taken |-> tk,
   got |-> <<>>, jobs |-> <<>>, err |-> NoError]

Fail(st, kind) == [st EXCEPT !.err = Raised("createPipeline", kind)]

\* ------------------------------------------------------------ _createProxies
\* Counter(from of every out-edge of n).items(): each egress name with its
\* number of out-edges, in the order the names first occur.
OutputCounts(E, n) ==
  LET oe == OutEdges(E, n)
      names == Dedup([j \in DOMAIN oe |-> E[oe[j]].from])
  IN [j \in DOMAIN names |->
        [name |-> names[j],
         count |-> Cardinality({i \in Range(oe) : E[i].from = names[j]})]]

\* the alias case (lines 112-118)
ProxyAlias(st, n, oc, outputType) ==
  LET s1 == PopN(st, oc.count)
      s2 == PopN(s1, 1)
      proxyOutputPorts == s1.got
      proxyInputPort == s2.got[1]
      node == s2.nodes[n]
      hits == {i \in DOMAIN node.ingress : outputType \in Range(node.ingress[i].v)}
      s3 == [s2 EXCEPT !.nodes[n].egress = Put(@, oc.name, proxyOutputPorts)]
  IN IF s1.err # NoError THEN s1
     ELSE IF s2.err # NoError THEN s2
     ELSE IF hits = {} THEN Fail(s3, "StopIteration")
     ELSE [s3 EXCEPT
             !.nodes[n].ingress = Put(@, node.ingress[FirstIndex(hits)].k, <<proxyInputPort>>),
             !.jobs = Append(@, Job("proxy", n, 0, <<proxyInputPort>>,
                                    <<outputType>> \o proxyOutputPorts, ""))]

\* the fan-out case (lines 120-123)
ProxyFanOut(st, n, oc, outputType) ==
  LET s1 == PopN(st, oc.count)
  IN IF s1.err # NoError THEN s1
     ELSE [s1 EXCEPT
             !.nodes[n].egress = Put(@, oc.name, s1.got),
             !.jobs = Append(@, Job("proxy", n, 0, <<outputType>>, s1.got, ""))]

\* variant of ProxyOutput: the alias case is missing
ProxyOutputFanOutOnly(st, n, inputTypes, oc) ==
  LET binding == Get(st.nodes[n].egress, oc.name)
  IN IF binding = <<>> THEN Fail(st, "IndexError")
     ELSE IF oc.count > 1 /\ binding[1] # Stdout THEN ProxyFanOut(st, n, oc, binding[1])
     ELSE st

\* the body of the inner loop for one (outputName, count)
ProxyOutput(st, n, inputTypes, oc) ==
  LET binding == Get(st.nodes[n].egress, oc.name)
  IN IF binding = <<>> THEN Fail(st, "IndexError")
     ELSE IF binding[1] \in inputTypes THEN ProxyAlias(st, n, oc, binding[1])
     ELSE IF oc.count > 1 /\ binding[1] # Stdout THEN ProxyFanOut(st, n, oc, binding[1])
     ELSE st

RECURSIVE ProxyOutputs(_, _, _, _)
ProxyOutputs(st, n, inputTypes, items) ==
  IF items = <<>> \/ st.err # NoError THEN st
  ELSE ProxyOutputs(ProxyOutput(st, n, inputTypes, Head(items)), n, inputTypes, Tail(items))

\* the outer loop: inputTypes is read once per node, before its outputs
\* (the loop over run[1..n] is unfolded as run[1..n/2], then run[n/2+1..n])
RECURSIVE CreateProxiesOver(_, _, _)
CreateProxiesOver(st, E, run) ==
  IF run = <<>> \/ st.err # NoError THEN st
  ELSE IF Len(run) = 1
  THEN ProxyOutputs(st, run[1], Range(Values(st.nodes[run[1]].ingress)),
                    OutputCounts(E, run[1]))
  ELSE CreateProxiesOver(CreateProxiesOver(st, E, SubSeq(run, 1, Len(run) \div 2)),
                         E, SubSeq(run, Len(run) \div 2 + 1, Len(run)))

\* ---------------------------------------------------- _executeLocalResources
StderrLog(node) == LabelText(node.label) \o "-" \o node.name \o ".err"

\* variant of ExecuteNode: one port for stdout, however many edges leave it
ExecuteNodeOnePort(st, E, n) ==
  LET node == st.nodes[n]
      s1 == IF node.stdinName # NoName THEN PopN(st, 1) ELSE [st EXCEPT !.got = <<>>]
      s2 == IF node.stdinName # NoName /\ s1.err = NoError
            THEN [s1 EXCEPT !.nodes[n].ingress = Put(@, node.stdinName, s1.got)]
            ELSE s1
      edgesFromStdout == {i \in DOMAIN E : E[i].source = n /\ E[i].from = node.stdoutName}
      k == IF edgesFromStdout = {} THEN 0 ELSE 1
      s3 == IF k > 0 THEN PopN(s2, k) ELSE [s2 EXCEPT !.got = <<>>]
      s4 == IF k > 0 /\ s3.err = NoError
            THEN [s3 EXCEPT !.nodes[n].egress = Put(@, node.stdoutName, s3.got)]
            ELSE s3
  IN IF s2.err # NoError THEN s2
     ELSE IF s4.err # NoError THEN s4
     ELSE [s4 EXCEPT !.jobs = Append(@, Job("launch", n, 0, s1.got, s3.got, StderrLog(node)))]

\* the loop body for one node
ExecuteNode(st, E, n) ==
  LET node == st.nodes[n]
      s1 == IF node.stdinName # NoName THEN PopN(st, 1) ELSE [st EXCEPT !.got = <<>>]
      s2 == IF node.stdinName # NoName /\ s1.err = NoError
            THEN [s1 EXCEPT !.nodes[n].ingress = Put(@, node.stdinName, s1.got)]
            ELSE s1
      edgesFromStdout == {i \in DOMAIN E : E[i].source = n /\ E[i].from = node.stdoutName}
      k == Cardinality(edgesFromStdout)
      s3 == IF k > 0 THEN PopN(s2, k) ELSE [s2 EXCEPT !.got = <<>>]
      s4 == IF k > 0 /\ s3.err = NoError
            THEN [s3 EXCEPT !.nodes[n].egress = Put(@, node.stdoutName, s3.got)]
            ELSE s3
  IN IF s2.err # NoError THEN s2
     ELSE IF s4.err # NoError THEN s4
     ELSE [s4 EXCEPT !.jobs = Append(@, Job("launch", n, 0, s1.got, s3.got, StderrLog(node)))]

RECURSIVE ExecuteOver(_, _, _)
ExecuteOver(st, E, run) ==
  IF run = <<>> \/ st.err # NoError THEN st
  ELSE IF Len(run) = 1 THEN ExecuteNode(st, E, run[1])
  ELSE ExecuteOver(ExecuteOver(st, E, SubSeq(run, 1, Len(run) \div 2)),
                   E, SubSeq(run, Len(run) \div 2 + 1, Len(run)))

\* -------------------------------------------------------------- _createPipes
LogSuffix(type) ==
  IF type = "binary" THEN ".data" ELSE ".log"

LogName(ns, e) ==
  "l_" \o LabelText(ns[e.source].label) \o "-" \o LabelText(ns[e.target].label)
       \o "-" \o e.name

\* variant of Popped: the element is read ([-1]) and stays on the list
PoppedKeeps(list) == list

\* list.pop() on a binding list: the last element comes off
Popped(list) == SubSeq(list, 1, Len(list) - 1)

\* the loop body for edge i: pop the listener off the source's egress list,
\* then the connector off the target's ingress list
PipeEdge(st, E, i) ==
  LET e == E[i]
      from == Get(st.nodes[e.source].egress, e.from)
      s1 == [st EXCEPT !.nodes[e.source].egress = Put(@, e.from, Popped(from))]
      to == Get(s1.nodes[e.target].ingress, e.to)
      s2 == [s1 EXCEPT !.nodes[e.target].ingress = Put(@, e.to, Popped(to))]
  IN IF from = <<>> THEN Fail(st, "IndexError")
     ELSE IF to = <<>> THEN Fail(s1, "IndexError")
     ELSE [s2 EXCEPT !.jobs = Append(@, Job("pipe", 0, i, <<from[Len(from)]>>,
                                         <<to[Len(to)]>>,
                                         LogName(st.nodes, e) \o LogSuffix(e.type)))]

RECURSIVE PipesOver(_, _, _)
PipesOver(st, E, es) ==
  IF es = <<>> \/ st.err # NoError THEN st
  ELSE IF Len(es) = 1 THEN PipeEdge(st, E, es[1])
  ELSE PipesOver(PipesOver(st, E, SubSeq(es, 1, Len(es) \div 2)),
                 E, SubSeq(es, Len(es) \div 2 + 1, Len(es)))

\* -------------------------------------------------------- _reportEntrypoints
Line(line, node, ports) == [line |-> line, node |-> node, ports |-> ports]

\* variant of IsEntrypoint: the in-degree is not looked at
IsEntrypointAnyStdin(ns, E, n) ==
  OutDegree(E, n) > 0 /\ ns[n].stdinName # NoName

IsEntrypoint(ns, E, n) ==
  InDegree(E, n) = 0 /\ OutDegree(E, n) > 0 /\ ns[n].stdinName # NoName

ReportEntrypoints(ns, E) ==
  LET Entry(n) == IsEntrypoint(ns, E, n)
      found == SelectSeq(GraphNodes(E), Entry)
  IN [j \in DOMAIN found |->
        Line("entrypoint", found[j], Get(ns[found[j]].ingress, ns[found[j]].stdinName))]

\* what createPipeline prints once planning is over (lines 264-274)
Printed(ns, E) ==
  <<Line("prologue", 0, <<>>)>> \o ReportEntrypoints(ns, E)
    \o <<Line("jobs", 0, <<>>), Line("copy", 0, <<>>), Line("info", 0, <<>>),
         Line("notice", 0, <<>>), Line("tail", Len(GraphNodes(E)), <<>>)>>

\* ------------------------------------------------------------------ actions
\* no plan is being run
NotRunning ==
  /\ started = {} /\ bound = {} /\ listening = {}
  /\ conn = <<>> /\ split = <<>> /\ pipe = <<>>
  /\ stalled = {} /\ interrupted = FALSE /\ elapsed = 0

\* Python None for select2
NoInput == "None"

\* octocat is not part of the planner: no selector is running
NoOctocat ==
  /\ selectFile = "" /\ select = NoInput /\ select2 = NoInput
  /\ read = <<>> /\ queue = <<>> /\ preview = <<>> /\ received = <<>>
  /\ output = <<>> /\ late = FALSE /\ mainPc = "off"
  /\ isRunning = <<>> /\ thread = <<>> /\ joining = 0

\* AVAILABLE_PORTS = list(range(9000, 9999)), cut to PoolSize ports
DefaultPool == [i \in 1..PoolSize |-> 9000 + (i - 1)]

\* p = Pipeliner(): an empty graph on the shared default pool
Init ==
  /\ nodes = <<>>
  /\ edges = <<>>
  /\ pool = DefaultPool
  /\ allocated = <<>>
  /\ taken = <<>>
  /\ order = <<>>
  /\ commands = <<>>
  /\ prevCommands = <<>>
  /\ out = <<>>
  /\ pc = "idle"
  /\ err = NoError
  /\ runs = 0
  /\ NotRunning
  /\ NoOctocat

\* The graph is assembled before it is planned; once a plan is printed the
\* script may plan again or go on to a further Pipeliner.
Assembling == pc = "idle"
Between == pc \in {"idle", "done"}

Raise(e) == pc' = "raised" /\ err' = e

\* a further Pipeliner() in the same process: a new graph and new components,
\* the same AVAILABLE_PORTS list object (the default argument of __init__)
NewPipeliner ==
  /\ Between
  /\ nodes' = <<>> /\ edges' = <<>> /\ order' = <<>>
  /\ commands' = <<>> /\ prevCommands' = <<>> /\ out' = <<>> /\ taken' = <<>>
  /\ runs' = 0
  /\ pc' = "idle"
  /\ UNCHANGED <<pool, allocated, err>>
  /\ UNCHANGED <<runVars, octoVars>>

\* addLocalNode(name, ingress, egress, code): builds the Node; the graph is
\* not touched
AddLocalNode ==
  /\ Assembling
  /\ Len(nodes) < MaxNodes
  /\ \E d \in {Declaration(Len(nodes) + 1), EmptyDeclaration} :
       IF NodeIsEmpty(d.ingress, d.egress)
       THEN Raise(Raised("addLocalNode", "EmptyNode")) /\ UNCHANGED nodes
       ELSE nodes' = Append(nodes, MkNode(d.name, d.ingress, d.egress))
            /\ UNCHANGED <<pc, err>>
  /\ UNCHANGED <<edges, pool, allocated, taken, order, commands, prevCommands,
                 out, runs>>
  /\ UNCHANGED <<runVars, octoVars>>

\* the part addEdge and addSimpleEdge share: the checks, then graph.add_edge
DoAddEdge(op, source, sourceOutput, target, targetInput, type) ==
  LET e == AddEdgeError(source, sourceOutput, target, targetInput, type)
  IN IF e # ""
     THEN Raise(Raised(op, e)) /\ UNCHANGED <<edges, order, runs>>
     ELSE /\ edges' = Append(edges, MkEdge(source, sourceOutput, target, targetInput, type))
          /\ order' = <<>>
          /\ runs' = 0
          /\ pc' = "idle"
          /\ UNCHANGED err

AddEdge ==
  /\ Assembling
  /\ Len(edges) < MaxEdges
  /\ \E source \in DOMAIN nodes, target \in DOMAIN nodes,
        sourceOutput \in OutputArgs, targetInput \in InputArgs, type \in TypeArgs :
       DoAddEdge("addEdge", source, sourceOutput, target, targetInput, type)
  /\ UNCHANGED <<nodes, pool, allocated, taken, commands, prevCommands, out>>
  /\ UNCHANGED <<runVars, octoVars>>

\* addSimpleEdge's own failures; "" when it goes on to addEdge.  keys()[0] of
\* a node without outputs (or inputs) raises IndexError.
AddSimpleEdgeError(source, target) ==
  IF Len(nodes[source].egress) > 1 THEN "AmbiguousOutput"
  ELSE IF Len(nodes[target].ingress) > 1 THEN "AmbiguousInput"
  ELSE IF Len(nodes[source].egress) = 0 THEN "IndexError"
  ELSE IF Len(nodes[target].ingress) = 0 THEN "IndexError"
  ELSE ""

AddSimpleEdge ==
  /\ Assembling
  /\ Len(edges) < MaxEdges
  /\ \E source \in DOMAIN nodes, target \in DOMAIN nodes, type \in TypeArgs :
       LET e == AddSimpleEdgeError(source, target)
       IN IF e # ""
          THEN Raise(Raised("addSimpleEdge", e)) /\ UNCHANGED <<edges, order, runs>>
          ELSE DoAddEdge("addSimpleEdge", source, nodes[source].egress[1].k,
                         target, nodes[target].ingress[1].k, type)
  /\ UNCHANGED <<nodes, pool, allocated, taken, commands, prevCommands, out>>
  /\ UNCHANGED <<runVars, octoVars>>

\* createPipeline, first step: _sanityCheck.  The sort is a function of the
\* graph: on a graph that was sorted before it yields the same order again.
SanityCheck ==
  /\ Between
  /\ runs < MaxRuns
  /\ runs' = runs + 1
  /\ taken' = <<>> /\ out' = <<>>
  /\ prevCommands' = commands /\ commands' = <<>>
  /\ IF SanityCheckFails(edges)
     THEN Raise(Raised("createPipeline", "MultipleProducers"))
     ELSE pc' = "labelling" /\ UNCHANGED err
  /\ UNCHANGED <<nodes, edges, pool, allocated, order>>
  /\ UNCHANGED <<runVars, octoVars>>

\* _labelNodes, one turn of its loop: the sort yields the next node, which
\* gets the counter as its label; or the sort ends the loop, by exhaustion or
\* by raising
LabelNodes ==
  /\ pc = "labelling"
  /\ IF Ready(edges, order) # {}
     THEN \E node \in Ready(edges, order) :
            /\ order' = Append(order, node)
            /\ nodes' = [nodes EXCEPT ![node].label = Label(Len(order))]
            /\ UNCHANGED <<pc, err>>
     ELSE /\ IF Len(order) < Len(GraphNodes(edges))
             THEN Raise(Raised("createPipeline", "NetworkXUnfeasible"))
             ELSE pc' = "labelled" /\ UNCHANGED err
          /\ UNCHANGED <<nodes, order>>
  /\ UNCHANGED <<edges, pool, allocated, taken, commands, prevCommands, out, runs>>
  /\ UNCHANGED <<runVars, octoVars>>

\* variant of Planned: each planning step prints its jobs as soon as it has
\* them
PlannedPrinting(st, next) ==
  /\ nodes' = st.nodes
  /\ pool' = st.pool
  /\ allocated' = st.allocated
  /\ taken' = st.taken
  /\ commands' = commands \o st.jobs
  /\ out' = out \o [j \in DOMAIN st.jobs |-> Line("jobs", 0, <<>>)]
  /\ IF st.err # NoError THEN Raise(st.err) ELSE pc' = next /\ UNCHANGED err
  /\ UNCHANGED <<edges, order, prevCommands, runs>>
  /\ UNCHANGED <<runVars, octoVars>>

\* the effect of one planning step on the script's state
Planned(st, next) ==
  /\ nodes' = st.nodes
  /\ pool' = st.pool
  /\ allocated' = st.allocated
  /\ taken' = st.taken
  /\ commands' = commands \o st.jobs
  /\ IF st.err # NoError THEN Raise(st.err) ELSE pc' = next /\ UNCHANGED err
  /\ UNCHANGED <<edges, order, prevCommands, out, runs>>
  /\ UNCHANGED <<runVars, octoVars>>

CreateProxies ==
  /\ pc = "labelled"
  /\ Planned(CreateProxiesOver(Planner(nodes, pool, allocated, taken), edges, order),
             "proxied")

ExecuteLocalResources ==
  /\ pc = "proxied"
  /\ Planned(ExecuteOver(Planner(nodes, pool, allocated, taken), edges, order),
             "bridged")

CreatePipes ==
  /\ pc = "bridged"
  /\ Planned(PipesOver(Planner(nodes, pool, allocated, taken), edges, GraphEdges(edges)),
             "wired")

\* createPipeline, last step: _prologue, _reportEntrypoints and the prints
PrintPlan ==
  /\ pc = "wired"
  /\ out' = Printed(nodes, edges)
  /\ pc' = "done"
  /\ UNCHANGED <<nodes, edges, pool, allocated, taken, order, commands,
                 prevCommands, err, runs>>
  /\ UNCHANGED <<runVars, octoVars>>

Next ==
  \/ NewPipeliner
  \/ AddLocalNode
  \/ AddEdge
  \/ AddSimpleEdge
  \/ SanityCheck
  \/ LabelNodes
  \/ CreateProxies
  \/ ExecuteLocalResources
  \/ CreatePipes
  \/ PrintPlan

Spec == Init /\ [][Next]_vars

\* ---------------------------------------------------- long chain descriptions
\* A description that declares n filters and connects each to the next one
\* (filter 1 -> filter 2 -> ... -> filter n), ready for createPipeline.
ChainSizes == (MaxChain - 3)..MaxChain

ChainNodes(n) ==
  [i \in 1..n |-> MkNode(Catalogue[1].name, Catalogue[1].ingress, Catalogue[1].egress)]

ChainEdges(n) == [i \in 1..(n - 1) |-> MkEdge(i, "out", i + 1, "in", "text")]

ChainInit ==
  /\ \E n \in ChainSizes : nodes = ChainNodes(n) /\ edges = ChainEdges(n)
  /\ pool = DefaultPool
  /\ allocated = <<>>
  /\ taken = <<>>
  /\ order = <<>>
  /\ commands = <<>>
  /\ prevCommands = <<>>
  /\ out = <<>>
  /\ pc = "idle"
  /\ err = NoError
  /\ runs = 0
  /\ NotRunning
  /\ NoOctocat

\* Spec with the long chains among the descriptions.
LongSpec == (Init \/ ChainInit) /\ [][Next]_vars

\* ------------------------------------------------------ the plan at run time
\* The printed plan is a shell script: every job is started in the
\* background ("job &"), then the script stays in the tail of its last line.
\* A job is a pipeline of nc listeners, the component, tee and nc connectors.

\* variant of NetcatListen: without the -k flag
NetcatListenOnce(port) == [port |-> port, keep |-> FALSE]

\* _netcatListen: "nc -lk localhost port"; with -k nc goes on listening when
\* a connection ends.
NetcatListen(port) == [port |-> port, keep |-> TRUE]

\* _netcat: "(while ! nc -z localhost port; do sleep 1; done; nc localhost
\* port)".  A connector is about to probe ("probe"), has probed in vain and
\* is about to sleep ("wait"), has left the loop and is about to open the
\* data connection ("ready"), holds it ("open") or was refused ("refused").
\* found: its last probe found a listener; probed: it has probed; gap: it
\* has slept since its last probe; early: it has probed twice without a
\* sleep in between.
Netcat(port) == [port |-> port, phase |-> "probe", found |-> FALSE, probed |-> FALSE,
                 gap |-> FALSE, early |-> FALSE]

\* the script's handler for the interrupt: _prologue prints the DATE and
\* mkdir lines only, so the plan has none
HandlerInstalled(lines) == \E i \in DOMAIN lines : lines[i].line = "trap"

ConnectorIds == UNION {{<<j, i>> : i \in DOMAIN commands[j].connect} : j \in DOMAIN commands}
Target(c) == commands[c[1]].connect[c[2]]
PlanListeners == UNION {Range(commands[j].listen) : j \in DOMAIN commands}

\* the endpoints a connector of the plan targets and no job of the plan
\* listens on: declared ports of components
ComponentPorts == {Target(c) : c \in ConnectorIds} \ PlanListeners

\* a listener accepts connections on the endpoint p
Listens(p) == p \in bound \/ (p \in DOMAIN listening /\ listening[p] = "listening")

\* the listener on p stays when a connection to it ends
Keeps(p) == p \in PlanListeners /\ NetcatListen(p).keep

\* the job of the plan that listens on the endpoint p
ListenerOf(p) == CHOOSE j \in DOMAIN commands : p \in Range(commands[j].listen)

\* A proxy of the alias case pipes its listener into a connector to the
\* component's port and the answer into tee; every other connector of a
\* launch or proxy job is a branch of its tee (_splitOutputs).
IsAliasProxy(job) ==
  job.kind = "proxy" /\ job.listen[1].port \in Range(allocated)
Branches(job) ==
  IF job.kind = "pipe" THEN {}
  ELSE IF IsAliasProxy(job) THEN DOMAIN job.connect \ {1}
  ELSE DOMAIN job.connect

SplitJobs == {j \in DOMAIN commands : Branches(commands[j]) # {}}
PipeJobs == {j \in DOMAIN commands : commands[j].kind = "pipe"}

\* the script is run: bash starts every job; from here on the processes
\* take their steps in any order
Launch ==
  /\ pc = "done"
  /\ pc' = "running"
  /\ started' = DOMAIN commands
  /\ bound' = {}
  /\ listening' = [p \in ComponentPorts |-> "not yet"]
  /\ conn' = [c \in ConnectorIds |-> Netcat(Target(c))]
  /\ split' = [j \in SplitJobs |->
                 [src |-> 0, w |-> [i \in DOMAIN commands[j].connect |-> 0]]]
  /\ pipe' = [k \in PipeJobs |-> [in |-> 0, copied |-> 0, logged |-> 0, out |-> 0]]
  /\ UNCHANGED <<stalled, interrupted, elapsed>>
  /\ UNCHANGED <<nodes, edges, pool, allocated, taken, order, commands,
                 prevCommands, out, err, runs>>
  /\ UNCHANGED octoVars

Running == pc = "running"

\* nc -lk of a started job binds its endpoint
Bind ==
  /\ Running
  /\ \E j \in started : \E p \in Range(commands[j].listen) \ bound :
       bound' = bound \cup {p}
  /\ UNCHANGED <<started, listening, conn, split, pipe, stalled, interrupted, elapsed>>
  /\ UNCHANGED <<planVars, octoVars>>

\* a component starts to listen on a port it was declared with
CompListen ==
  /\ Running /\ started # {}
  /\ \E p \in DOMAIN listening :
       /\ listening[p] = "not yet"
       /\ listening' = [listening EXCEPT ![p] = "listening"]
  /\ UNCHANGED <<started, bound, conn, split, pipe, stalled, interrupted, elapsed>>
  /\ UNCHANGED <<planVars, octoVars>>

\* the loop of _netcat after a probe: done when a listener answered,
\* otherwise on to the sleep
AfterProbe(answered) == IF answered THEN "ready" ELSE "wait"

\* nc -z: connect and disconnect at once
Probe ==
  /\ Running
  /\ \E c \in DOMAIN conn :
       /\ c[1] \in started
       /\ conn[c].phase = "probe"
       /\ conn' = [conn EXCEPT ![c] =
                     [@ EXCEPT !.phase = AfterProbe(Listens(conn[c].port)),
                               !.found = Listens(conn[c].port),
                               !.probed = TRUE,
                               !.gap = FALSE,
                               !.early = @ \/ (conn[c].probed /\ ~conn[c].gap)]]
  /\ UNCHANGED <<started, bound, listening, split, pipe, stalled, interrupted, elapsed>>
  /\ UNCHANGED <<planVars, octoVars>>

\* sleep 1, then the next turn of the loop
Sleep ==
  /\ Running
  /\ \E c \in DOMAIN conn :
       /\ c[1] \in started
       /\ conn[c].phase = "wait"
       /\ conn' = [conn EXCEPT ![c] = [@ EXCEPT !.phase = "probe", !.gap = TRUE]]
  /\ UNCHANGED <<started, bound, listening, split, pipe, stalled, interrupted, elapsed>>
  /\ UNCHANGED <<planVars, octoVars>>

\* nc localhost port: the data connection; refused when nothing listens
Open ==
  /\ Running
  /\ \E c \in DOMAIN conn :
       /\ c[1] \in started
       /\ conn[c].phase = "ready"
       /\ conn' = [conn EXCEPT ![c] =
                     [@ EXCEPT !.phase = IF Listens(conn[c].port) THEN "open" ELSE "refused"]]
  /\ UNCHANGED <<started, bound, listening, split, pipe, stalled, interrupted, elapsed>>
  /\ UNCHANGED <<planVars, octoVars>>

\* a listener that does not keep listening is gone once the connection of a
\* probe has ended
Close ==
  /\ Running
  /\ \E c \in DOMAIN conn :
       /\ conn[c].phase = "ready"
       /\ Listens(conn[c].port)
       /\ ~Keeps(conn[c].port)
       /\ bound' = bound \ {conn[c].port}
       /\ listening' = [p \in DOMAIN listening |->
                          IF p = conn[c].port THEN "closed" ELSE listening[p]]
  /\ UNCHANGED <<started, conn, split, pipe, stalled, interrupted, elapsed>>
  /\ UNCHANGED <<planVars, octoVars>>

\* ---- the bytes.  A stream is counted in bytes: every stage of a job has
\* passed on a prefix of what it was given.
Max(a, b) == IF a >= b THEN a ELSE b

\* the wiring jobs whose listener the component connects to itself (a
\* declared egress port): no connector of the plan targets it
FedByComponent(k) == ~\E c \in ConnectorIds : Target(c) = commands[k].listen[1]

\* what the tee of the wiring job k has taken out of the pipe from its listener
TeeRead(k) == Max(pipe[k].copied, pipe[k].logged)

\* what the connector of branch i of job j has passed on to its listener
Forwarded(j, i) ==
  LET p == commands[j].connect[i]
  IN IF p \in PlanListeners /\ ListenerOf(p) \in PipeJobs THEN pipe[ListenerOf(p)].in ELSE 0

\* tee writes every chunk to its outputs one after the other, each write
\* blocking: the branch its next write goes to, 0 when it has nothing to write
NextBranch(j) ==
  LET B == Branches(commands[j])
      first == FirstIndex(B)
      behind == {i \in B : split[j].w[i] < split[j].w[first]}
  IN IF behind # {} THEN FirstIndex(behind)
     ELSE IF split[j].src > split[j].w[first] THEN first
     ELSE 0

\* the write of tee to branch i does not block: the pipe to the connector
\* has room
BranchHasRoom(j, i) == split[j].w[i] - Forwarded(j, i) < PipeBuffer

\* a component writes a byte to an output: to the tee behind its stdout, to
\* a proxy it has reached, or to the listener of a wiring job
Emit ==
  /\ Running
  /\ \/ \E j \in SplitJobs \cap started :
          /\ split[j].src < MaxBytes
          /\ \A i \in Branches(commands[j]) : split[j].src - split[j].w[i] < PipeBuffer
          /\ commands[j].kind = "proxy" =>
               IF IsAliasProxy(commands[j]) THEN conn[<<j, 1>>].phase = "open"
               ELSE commands[j].listen[1] \in bound
          /\ split' = [split EXCEPT ![j].src = @ + 1]
          /\ UNCHANGED pipe
     \/ \E k \in PipeJobs \cap started :
          /\ FedByComponent(k)
          /\ commands[k].listen[1] \in bound
          /\ pipe[k].in < MaxBytes
          /\ pipe[k].in - TeeRead(k) < PipeBuffer
          /\ pipe' = [pipe EXCEPT ![k].in = @ + 1]
          /\ UNCHANGED split
  /\ UNCHANGED <<started, bound, listening, conn, stalled, interrupted, elapsed>>
  /\ UNCHANGED <<planVars, octoVars>>

\* the tee of _splitOutputs writes to its next branch
TeeWrite ==
  /\ Running
  /\ \E j \in SplitJobs \cap started :
       /\ NextBranch(j) # 0
       /\ BranchHasRoom(j, NextBranch(j))
       /\ split' = [split EXCEPT ![j].w[NextBranch(j)] = @ + 1]
  /\ UNCHANGED <<started, bound, listening, conn, pipe, stalled, interrupted, elapsed>>
  /\ UNCHANGED <<planVars, octoVars>>

\* the connector of a branch passes a byte on to the listener of a wiring job
Forward ==
  /\ Running
  /\ \E j \in SplitJobs \cap started : \E i \in Branches(commands[j]) :
       LET p == commands[j].connect[i]
       IN /\ conn[<<j, i>>].phase = "open"
          /\ p \in PlanListeners /\ ListenerOf(p) \in PipeJobs \cap started
          /\ split[j].w[i] > pipe[ListenerOf(p)].in
          /\ pipe[ListenerOf(p)].in - TeeRead(ListenerOf(p)) < PipeBuffer
          /\ pipe' = [pipe EXCEPT ![ListenerOf(p)].in = @ + 1]
  /\ UNCHANGED <<started, bound, listening, conn, split, stalled, interrupted, elapsed>>
  /\ UNCHANGED <<planVars, octoVars>>

\* The tee of a wiring job ("nc -lk | tee LOG | connector") writes a chunk
\* to its standard output and to the log, in the order the tee at hand has,
\* and reads the next chunk when both writes are done.
TeeCanCopy(k) ==
  /\ pipe[k].copied < pipe[k].in
  /\ pipe[k].copied <= pipe[k].logged
  /\ pipe[k].copied - pipe[k].out < PipeBuffer

TeeCanLog(k) ==
  /\ pipe[k].logged < pipe[k].in
  /\ pipe[k].logged <= pipe[k].copied
  /\ k \notin stalled

TeeCopy ==
  /\ Running
  /\ \E k \in PipeJobs \cap started :
       TeeCanCopy(k) /\ pipe' = [pipe EXCEPT ![k].copied = @ + 1]
  /\ UNCHANGED <<started, bound, listening, conn, split, stalled, interrupted, elapsed>>
  /\ UNCHANGED <<planVars, octoVars>>

TeeLog ==
  /\ Running
  /\ \E k \in PipeJobs \cap started :
       TeeCanLog(k) /\ pipe' = [pipe EXCEPT ![k].logged = @ + 1]
  /\ UNCHANGED <<started, bound, listening, conn, split, stalled, interrupted, elapsed>>
  /\ UNCHANGED <<planVars, octoVars>>

\* the connector of a wiring job hands a byte to the consumer's listener
CanDeliver(k) == conn[<<k, 1>>].phase = "open" /\ pipe[k].out < pipe[k].copied

Deliver ==
  /\ Running
  /\ \E k \in PipeJobs \cap started :
       CanDeliver(k) /\ pipe' = [pipe EXCEPT ![k].out = @ + 1]
  /\ UNCHANGED <<started, bound, listening, conn, split, stalled, interrupted, elapsed>>
  /\ UNCHANGED <<planVars, octoVars>>

\* the log sink of a wiring job (the file, or ts in front of it) stops
\* accepting writes, and accepts them again
Stall ==
  /\ Running
  /\ \E k \in PipeJobs \ stalled : stalled' = stalled \cup {k}
  /\ UNCHANGED <<started, bound, listening, conn, split, pipe, interrupted, elapsed>>
  /\ UNCHANGED <<planVars, octoVars>>

Resume ==
  /\ Running
  /\ \E k \in stalled : stalled' = stalled \ {k}
  /\ UNCHANGED <<started, bound, listening, conn, split, pipe, interrupted, elapsed>>
  /\ UNCHANGED <<planVars, octoVars>>

\* The interrupt reaches the script.  A handler of the plan would signal
\* every job and wait for it; without one the shell ends, and what becomes of
\* the jobs is left to how the interrupt was sent: all of them go on, or all
\* of them end with it.
Interrupt ==
  /\ Running
  /\ ~interrupted
  /\ interrupted' = TRUE
  /\ IF HandlerInstalled(out) THEN started' = {}
     ELSE \E S \in {started, {}} : started' = S
  /\ UNCHANGED <<bound, listening, conn, split, pipe, stalled, elapsed>>
  /\ UNCHANGED <<planVars, octoVars>>

\* a second passes after the interrupt
Tick ==
  /\ Running
  /\ interrupted
  /\ elapsed < GraceWindow
  /\ elapsed' = elapsed + 1
  /\ UNCHANGED <<started, bound, listening, conn, split, pipe, stalled, interrupted>>
  /\ UNCHANGED <<planVars, octoVars>>

\* The descriptions that are run: the three components of the catalogue with
\* the edge of example.py (filter -> sink), with two edges from the filter's
\* stdout, with two edges from the router's second port, or with an edge to
\* the port the router listens on.
RunNodes == [i \in 1..3 |-> MkNode(Declaration(i).name, Declaration(i).ingress,
                                   Declaration(i).egress)]

RunEdges ==
  { << MkEdge(1, "out", 3, "in", "text") >>,
    << MkEdge(1, "out", 3, "in", "text"), MkEdge(1, "out", 2, "in2", "binary") >>,
    << MkEdge(2, "out2", 3, "in", "text"), MkEdge(2, "out2", 1, "in", "none") >>,
    << MkEdge(1, "out", 2, "in", "text") >> }

RunInit ==
  /\ nodes = RunNodes
  /\ edges \in RunEdges
  /\ pool = DefaultPool
  /\ allocated = <<>>
  /\ taken = <<>>
  /\ order = <<>>
  /\ commands = <<>>
  /\ prevCommands = <<>>
  /\ out = <<>>
  /\ pc = "idle"
  /\ err = NoError
  /\ runs = 0
  /\ NotRunning
  /\ NoOctocat

\* createPipeline on these descriptions and the start of the printed plan:
\* the listeners, the probe loops, the interrupt
WireNext ==
  \/ SanityCheck
  \/ LabelNodes
  \/ CreateProxies
  \/ ExecuteLocalResources
  \/ CreatePipes
  \/ PrintPlan
  \/ Launch
  \/ Bind
  \/ CompListen
  \/ Probe
  \/ Sleep
  \/ Open
  \/ Close
  \/ Interrupt
  \/ Tick

WireSpec == RunInit /\ [][WireNext]_vars

\* the start of the plan has gone well: every listener is bound, every
\* component listens, every connector has found its listener and holds its
\* data connection
Connected ==
  /\ Running
  /\ bound = {}
  /\ bound' = PlanListeners
  /\ listening' = [p \in DOMAIN listening |-> "listening"]
  /\ conn' = [c \in DOMAIN conn |->
                [conn[c] EXCEPT !.phase = "open", !.found = TRUE, !.probed = TRUE]]
  /\ UNCHANGED <<started, split, pipe, stalled, interrupted, elapsed>>
  /\ UNCHANGED <<planVars, octoVars>>

\* createPipeline on these descriptions and the bytes in the running plan
FlowNext ==
  \/ SanityCheck
  \/ LabelNodes
  \/ CreateProxies
  \/ ExecuteLocalResources
  \/ CreatePipes
  \/ PrintPlan
  \/ Launch
  \/ Connected
  \/ Emit
  \/ TeeWrite
  \/ Forward
  \/ TeeCopy
  \/ TeeLog
  \/ Deliver
  \/ Stall
  \/ Resume

FlowSpec == RunInit /\ [][FlowNext]_vars

\* ------------------------------------- descriptions with a "2" in their names
\* A description whose port names hold the character addEdge puts between
\* the two names of an edge: a splitter with the outputs "a" and "a2b", a
\* joiner with the inputs "b2c" and "c", and the edges a -> b2c and a2b -> c
\* of some supported types, ready for createPipeline.
SeparatorNodes ==
  << MkNode("splitter", << [k |-> "in", v |-> Stdin] >>,
            << [k |-> "a", v |-> Port(5002)], [k |-> "a2b", v |-> Port(5003)] >>),
     MkNode("joiner", << [k |-> "b2c", v |-> Stdin], [k |-> "c", v |-> Port(5004)] >>,
            << >>) >>

SeparatorEdges(t1, t2) == << MkEdge(1, "a", 2, "b2c", t1), MkEdge(1, "a2b", 2, "c", t2) >>

SeparatorInit ==
  /\ nodes = SeparatorNodes
  /\ \E t1, t2 \in EdgeTypes : edges = SeparatorEdges(t1, t2)
  /\ pool = DefaultPool
  /\ allocated = <<>>
  /\ taken = <<>>
  /\ order = <<>>
  /\ commands = <<>>
  /\ prevCommands = <<>>
  /\ out = <<>>
  /\ pc = "idle"
  /\ err = NoError
  /\ runs = 0
  /\ NotRunning
  /\ NoOctocat

\* Spec with these descriptions among the descriptions.
NamedSpec == (Init \/ SeparatorInit) /\ [][Next]_vars

\* --------------------------- descriptions with several outputs on one port
\* A mixer that receives on port 5000 and sends on it with two outputs
\* (with `twoIn`, its second input is bound to port 5000 as well), and a
\* collector with two inputs; the edges are added by the description.
AliasNodes(twoIn) ==
  << MkNode("mixer",
            IF twoIn
              THEN << [k |-> "in", v |-> Port(5000)], [k |-> "in2", v |-> Port(5000)] >>
              ELSE << [k |-> "in", v |-> Port(5000)] >>,
            << [k |-> "out", v |-> Port(5000)], [k |-> "out2", v |-> Port(5000)] >>),
     MkNode("collector", << [k |-> "in", v |-> Stdin], [k |-> "in2", v |-> Port(5005)] >>,
            << >>) >>

AliasInit ==
  /\ \E twoIn \in BOOLEAN : nodes = AliasNodes(twoIn)
  /\ edges = <<>>
  /\ pool = DefaultPool
  /\ allocated = <<>>
  /\ taken = <<>>
  /\ order = <<>>
  /\ commands = <<>>
  /\ prevCommands = <<>>
  /\ out = <<>>
  /\ pc = "idle"
  /\ err = NoError
  /\ runs = 0
  /\ NotRunning
  /\ NoOctocat

\* Spec with these descriptions among the descriptions.
AliasSpec == (Init \/ AliasInit) /\ [][Next]_vars

\* ------------------------------------------- octocat (src/src/octocat.py)
\* Chunks the inputs deliver, all in all, while the selector runs.
MaxChunks == 3

\* load_inputs: the names of the *.in files, in the order of the inputs dict
InputNames == <<"a", "b", "c">>
Inputs == Range(InputNames)

\* the first line of each *.in file: `stdin` or a port number
InputKind == [a |-> "socket", b |-> "socket", c |-> "stdin"]

\* what the SELECT file may hold: the name of an input, or anything else
SelectEntries == Inputs \cup {"?"}

\* read_select: the input SELECT names; the first input on any error
ReadSelect(entry) == IF entry \in Inputs THEN entry ELSE InputNames[1]

\* the chunks that have arrived so far, over all inputs
Arrived == Len(received[InputNames[1]]) + Len(received[InputNames[2]])
             + Len(received[InputNames[3]])

\* a chunk on standard output: the n-th chunk input `from` has read
Chunk(i, n) == [from |-> i, n |-> n]

\* main has started the input threads (line 131); nothing has arrived yet
OctoInit ==
  /\ nodes = <<>> /\ edges = <<>> /\ pool = DefaultPool
  /\ allocated = <<>> /\ taken = <<>> /\ order = <<>>
  /\ commands = <<>> /\ prevCommands = <<>> /\ out = <<>>
  /\ pc = "idle" /\ err = NoError /\ runs = 0
  /\ NotRunning
  /\ selectFile \in SelectEntries
  /\ select = NoInput /\ select2 = NoInput
  /\ read = [i \in Inputs |-> FALSE]
  /\ queue = [i \in Inputs |-> <<>>]
  /\ preview = [i \in Inputs |-> <<>>]
  /\ received = [i \in Inputs |-> <<>>]
  /\ output = <<>>
  /\ late = FALSE
  /\ mainPc = "start"
  /\ isRunning = [i \in Inputs |-> TRUE]
  /\ thread = [i \in Inputs |-> IF InputKind[i] = "stdin" THEN "read" ELSE "accept"]
  /\ joining = 0

\* select = read_select(inputs); select.read = True; select2 = None; start = now
SelectFirst ==
  /\ mainPc = "start"
  /\ select' = ReadSelect(selectFile)
  /\ read' = [read EXCEPT ![ReadSelect(selectFile)] = TRUE]
  /\ select2' = NoInput
  /\ late' = FALSE
  /\ mainPc' = "get"
  /\ UNCHANGED <<selectFile, queue, preview, received, output>>
  /\ UNCHANGED <<isRunning, thread, joining>>
  /\ UNCHANGED <<planVars, runVars>>

\* variant: the preview is written under the read flag, like the queue
ReceivePreviewIfRead(i) ==
  /\ thread[i] \in {"recv", "read"}
  /\ Arrived < MaxChunks
  /\ LET n == Len(received[i]) + 1 IN
       /\ received' = [received EXCEPT ![i] = Append(@, n)]
       /\ queue' = IF read[i] THEN [queue EXCEPT ![i] = Append(@, n)] ELSE queue
       /\ preview' = IF read[i] THEN [preview EXCEPT ![i] = Append(@, n)] ELSE preview
  /\ UNCHANGED <<selectFile, select, select2, read, output, late, mainPc>>
  /\ UNCHANGED <<isRunning, thread, joining>>
  /\ UNCHANGED <<planVars, runVars>>
\* an input thread reads a chunk: data = recv(1024) / stdin.read(1024);
\* if self.read: queue.put(data); preview.write(data)
Receive(i) ==
  /\ thread[i] \in {"recv", "read"}
  /\ Arrived < MaxChunks
  /\ LET n == Len(received[i]) + 1 IN
       /\ received' = [received EXCEPT ![i] = Append(@, n)]
       /\ queue' = IF read[i] THEN [queue EXCEPT ![i] = Append(@, n)] ELSE queue
       /\ preview' = [preview EXCEPT ![i] = Append(@, n)]
  /\ UNCHANGED <<selectFile, select, select2, read, output, late, mainPc>>
  /\ UNCHANGED <<isRunning, thread, joining>>
  /\ UNCHANGED <<planVars, runVars>>

\* time goes by: more than `interval` since main took `start`
IntervalPasses ==
  /\ mainPc \in {"get", "check"}
  /\ ~late
  /\ late' = TRUE
  /\ UNCHANGED <<selectFile, select, select2, read, queue, preview, received,
                 output, mainPc>>
  /\ UNCHANGED <<isRunning, thread, joining>>
  /\ UNCHANGED <<planVars, runVars>>

\* data = select.queue.get(timeout=interval); sys.stdout.buffer.write(data)
QueueGet ==
  /\ mainPc = "get"
  /\ queue[select] # <<>>
  /\ output' = Append(output, Chunk(select, Head(queue[select])))
  /\ queue' = [queue EXCEPT ![select] = Tail(@)]
  /\ mainPc' = "check"
  /\ UNCHANGED <<selectFile, select, select2, read, preview, received, late>>
  /\ UNCHANGED <<isRunning, thread, joining>>
  /\ UNCHANGED <<planVars, runVars>>

\* except queue.Empty: nothing came for `interval`; with a switch pending,
\* select = select2; select2 = None; break (the outer loop takes `start` anew)
GetTimeout ==
  /\ mainPc = "get"
  /\ queue[select] = <<>>
  /\ IF select2 # NoInput
       THEN /\ select' = select2
            /\ select2' = NoInput
            /\ late' = FALSE
            /\ mainPc' = "get"
       ELSE /\ late' = TRUE
            /\ mainPc' = "check"
            /\ UNCHANGED <<select, select2>>
  /\ UNCHANGED <<selectFile, read, queue, preview, received, output>>
  /\ UNCHANGED <<isRunning, thread, joining>>
  /\ UNCHANGED <<planVars, runVars>>

\* variant: the input being drained keeps its read flag until the switch
CheckSelectKeepsReading ==
  /\ mainPc = "check"
  /\ IF late
       THEN LET s2 == ReadSelect(selectFile) IN
              IF s2 # select
                THEN /\ select2' = s2
                     /\ read' = [read EXCEPT ![s2] = TRUE]
                ELSE /\ select2' = NoInput
                     /\ UNCHANGED read
       ELSE UNCHANGED <<select2, read>>
  /\ mainPc' = "get"
  /\ UNCHANGED <<selectFile, select, queue, preview, received, output, late>>
  /\ UNCHANGED <<isRunning, thread, joining>>
  /\ UNCHANGED <<planVars, runVars>>
\* if time.time() - start > interval: select2 = read_select(inputs);
\* if select2 != select: select.read = False; select2.read = True
\* else: select2 = None
CheckSelect ==
  /\ mainPc = "check"
  /\ IF late
       THEN LET s2 == ReadSelect(selectFile) IN
              IF s2 # select
                THEN /\ select2' = s2
                     /\ read' = [read EXCEPT ![select] = FALSE, ![s2] = TRUE]
                ELSE /\ select2' = NoInput
                     /\ UNCHANGED read
       ELSE UNCHANGED <<select2, read>>
  /\ mainPc' = "get"
  /\ UNCHANGED <<selectFile, select, queue, preview, received, output, late>>
  /\ UNCHANGED <<isRunning, thread, joining>>
  /\ UNCHANGED <<planVars, runVars>>

\* the operator writes another entry to SELECT
WriteSelect(entry) ==
  /\ mainPc # "off"
  /\ entry # selectFile
  /\ selectFile' = entry
  /\ UNCHANGED <<select, select2, read, queue, preview, received, output, late,
                 mainPc>>
  /\ UNCHANGED <<isRunning, thread, joining>>
  /\ UNCHANGED <<planVars, runVars>>

\* Socket.run: conn, _ = server.accept(), a client has connected
Accept(i) ==
  /\ thread[i] = "accept"
  /\ isRunning[i]
  /\ thread' = [thread EXCEPT ![i] = "recv"]
  /\ UNCHANGED <<selectFile, select, select2, read, queue, preview, received,
                 output, late, mainPc, isRunning, joining>>
  /\ UNCHANGED <<planVars, runVars>>

\* Socket.run: recv returns b'' (the client has closed): break, accept again
Disconnect(i) ==
  /\ thread[i] = "recv"
  /\ thread' = [thread EXCEPT ![i] = "accept"]
  /\ UNCHANGED <<selectFile, select, select2, read, queue, preview, received,
                 output, late, mainPc, isRunning, joining>>
  /\ UNCHANGED <<planVars, runVars>>

\* the loop tests of a thread: Socket.run leaves `while self.is_running`
\* within the second its select waits, with or without a connection;
\* Stdin.run is `while True` and tests nothing
ThreadStops(i) ==
  /\ InputKind[i] = "socket"
  /\ thread[i] \in {"accept", "recv"}
  /\ ~isRunning[i]
  /\ thread' = [thread EXCEPT ![i] = "ended"]
  /\ UNCHANGED <<selectFile, select, select2, read, queue, preview, received,
                 output, late, mainPc, isRunning, joining>>
  /\ UNCHANGED <<planVars, runVars>>

\* except KeyboardInterrupt: input.is_running = False for every input
KeyboardInterrupt ==
  /\ mainPc \in {"get", "check"}
  /\ isRunning' = [i \in Inputs |-> FALSE]
  /\ mainPc' = "join"
  /\ joining' = 1
  /\ UNCHANGED <<selectFile, select, select2, read, queue, preview, received,
                 output, late, thread>>
  /\ UNCHANGED <<planVars, runVars>>

\* input.join() for every input, in the order of the dict; then break
Join ==
  /\ mainPc = "join"
  /\ thread[InputNames[joining]] = "ended"
  /\ IF joining < Len(InputNames)
       THEN joining' = joining + 1 /\ UNCHANGED mainPc
       ELSE mainPc' = "returned" /\ UNCHANGED joining
  /\ UNCHANGED <<selectFile, select, select2, read, queue, preview, received,
                 output, late, isRunning, thread>>
  /\ UNCHANGED <<planVars, runVars>>

OctoNext ==
  \/ SelectFirst
  \/ \E i \in Inputs : Receive(i)
  \/ IntervalPasses
  \/ QueueGet
  \/ GetTimeout
  \/ CheckSelect
  \/ \E entry \in SelectEntries : WriteSelect(entry)
  \/ \E i \in Inputs : Accept(i)
  \/ \E i \in Inputs : Disconnect(i)
  \/ \E i \in Inputs : ThreadStops(i)
  \/ KeyboardInterrupt
  \/ Join

OctoSpec == OctoInit /\ [][OctoNext]_vars

\* =================================================================== claims
PassedSanity == pc \in {"labelling", "labelled", "proxied", "bridged", "wired", "done"}
PlanningFailed == pc = "raised" /\ err.op = "createPipeline"

\* two edges of E that target the same (node, ingress name)
SharedInput(E, i, j) == i # j /\ E[i].target = E[j].target /\ E[i].to = E[j].to
HasSharedInput(E) == \E i, j \in DOMAIN E : SharedInput(E, i, j)

\* C1: createPipeline raises the multiple-producers error exactly for the
\* graphs in which two or more edges target the same (node, ingress name):
\* no such graph gets past _sanityCheck, a planning failure on such a graph
\* is that error, and that error is raised on no other graph.
C1_SingleProducer ==
  /\ PassedSanity => ~HasSharedInput(edges)
  /\ PlanningFailed /\ HasSharedInput(edges) => err.kind = "MultipleProducers"
  /\ PlanningFailed /\ err.kind = "MultipleProducers" => HasSharedInput(edges)

\* C1 witness: the error was raised for a self-loop edge that shares its
\* input with another edge.
C1_Witness ==
  /\ PlanningFailed /\ err.kind = "MultipleProducers"
  /\ \E i, j \in DOMAIN edges :
       SharedInput(edges, i, j) /\ edges[i].source = edges[i].target

\* the endpoints the emitted jobs listen on / connect to, with repetitions
Listeners(cmds) == Flatten([j \in DOMAIN cmds |-> cmds[j].listen])
Connectors(cmds) == Flatten([j \in DOMAIN cmds |-> cmds[j].connect])
Count(s, x) == Cardinality({i \in DOMAIN s : s[i] = x})

\* p is bound to an ingress no edge targets
OpenIngressPort(p) ==
  \E n \in DOMAIN nodes : \E i \in DOMAIN nodes[n].ingress :
    /\ Port(p) \in Range(nodes[n].ingress[i].v)
    /\ ~\E e \in DOMAIN edges : edges[e].target = n /\ edges[e].to = nodes[n].ingress[i].k

\* C2 as stated: in a printed plan every endpoint taken from the pool is a
\* listener exactly once and a connector exactly once.
C2_ListenerAndConnectorOnce ==
  pc = "done" =>
    \A p \in Range(taken) :
      /\ Count(Listeners(commands), Port(p)) = 1
      /\ Count(Connectors(commands), Port(p)) = 1

\* C2 amended: in a printed plan every endpoint taken from the pool is a
\* listener exactly once; it is a connector exactly once, except that the
\* port of an ingress without incoming edge (stdin bridge or proxy input) is
\* connected to by no job.
C2_ListenerOnceConnectorIfFed ==
  pc = "done" =>
    \A p \in Range(taken) :
      /\ Count(Listeners(commands), Port(p)) = 1
      /\ Count(Connectors(commands), Port(p)) = (IF OpenIngressPort(p) THEN 0 ELSE 1)

\* C2 witness: a printed plan with a port left open for an outside producer,
\* a fed port, and a job that fans out to two ports.
C2_Witness ==
  /\ pc = "done"
  /\ \E p, q \in Range(taken) : OpenIngressPort(p) /\ ~OpenIngressPort(q)
  /\ \E j \in DOMAIN commands : Len(commands[j].connect) >= 2

NoDuplicates(s) == \A i, j \in DOMAIN s : i # j => s[i] # s[j]
Reverse(s) == [i \in DOMAIN s |-> s[Len(s) + 1 - i]]

\* C3: over all allocations (of one createPipeline call, of repeated calls
\* and of successive Pipeliners on the shared default pool) no id is returned
\* twice, the pool only loses the ids it returned (it never grows and no id
\* goes missing), and the allocation on the drained pool raises and ends
\* planning.
C3_FreshEndpoints ==
  /\ NoDuplicates(allocated)
  /\ Range(allocated) \cap Range(pool) = {}
  /\ pool \o Reverse(allocated) = DefaultPool
  /\ err.kind = "ExhaustedPool" => pc = "raised" /\ pool = <<>>

\* C3 witness: the pool ran dry in a call that had taken ports itself, on a
\* pool that an earlier Pipeliner had already taken ports from.
C3_Witness ==
  /\ pc = "raised" /\ err.kind = "ExhaustedPool"
  /\ taken # <<>>
  /\ Len(allocated) > Len(taken)

HasOutEdge(n, name) == \E e \in DOMAIN edges : edges[e].source = n /\ edges[e].from = name

Disjoint(a, b) == Range(a) \cap Range(b) = {}

\* C4 as stated: after proxy insertion and stream bridging no egress of a
\* node of the graph shares an endpoint with an ingress of the same node.
C4_NoSharedEndpoint ==
  pc = "bridged" =>
    \A n \in Range(GraphNodes(edges)) :
      \A i \in DOMAIN nodes[n].egress : \A j \in DOMAIN nodes[n].ingress :
        Disjoint(nodes[n].egress[i].v, nodes[n].ingress[j].v)

\* C4 amended: after proxy insertion and stream bridging no egress with at
\* least one outgoing edge shares an endpoint with an ingress of its node.
C4_NoSharedEndpointOnUsedEgress ==
  pc = "bridged" =>
    \A n \in Range(GraphNodes(edges)) :
      \A i \in DOMAIN nodes[n].egress : \A j \in DOMAIN nodes[n].ingress :
        HasOutEdge(n, nodes[n].egress[i].k) =>
          Disjoint(nodes[n].egress[i].v, nodes[n].ingress[j].v)

\* C4 witness: bridging is done on a graph with an edge from an egress that
\* was declared on the port of an ingress of its node.
C4_Witness ==
  /\ pc = "bridged"
  /\ \E e \in DOMAIN edges :
       \E d \in DOMAIN Catalogue :
         /\ nodes[edges[e].source].name = Catalogue[d].name
         /\ \E i \in DOMAIN Catalogue[d].egress, j \in DOMAIN Catalogue[d].ingress :
              /\ Catalogue[d].egress[i].k = edges[e].from
              /\ Catalogue[d].egress[i].v = Catalogue[d].ingress[j].v

\* C5 as stated: after _labelNodes the label of the source of every edge is
\* less, as a string, than the label of its target.
C5_LabelsFollowEdges ==
  pc = "labelled" =>
    \A e \in DOMAIN edges :
      StrLess(nodes[edges[e].source].label, nodes[edges[e].target].label)

\* C5 amended: the same, for graphs of at most 10^PadWidth nodes.
C5_LabelsFollowEdgesUpTo100 ==
  pc = "labelled" /\ Len(GraphNodes(edges)) <= 10 ^ PadWidth =>
    \A e \in DOMAIN edges :
      StrLess(nodes[edges[e].source].label, nodes[edges[e].target].label)

\* C5 witness: a graph of exactly 10^PadWidth nodes has been labelled.
C5_Witness ==
  pc = "labelled" /\ Len(GraphNodes(edges)) = 10 ^ PadWidth

\* two job lists that differ only by a renaming of the endpoints
SameShape(a, b) ==
  /\ Len(a) = Len(b)
  /\ \A j \in DOMAIN a :
       /\ a[j].kind = b[j].kind /\ a[j].node = b[j].node /\ a[j].edge = b[j].edge
       /\ a[j].log = b[j].log
       /\ Len(a[j].listen) = Len(b[j].listen)
       /\ Len(a[j].connect) = Len(b[j].connect)

Renaming(a, b) ==
  UNION {{<<a[j].listen[i], b[j].listen[i]>> : i \in DOMAIN a[j].listen}
           \cup {<<a[j].connect[i], b[j].connect[i]>> : i \in DOMAIN a[j].connect}
         : j \in DOMAIN a}

Isomorphic(a, b) ==
  /\ SameShape(a, b)
  /\ \A x, y \in Renaming(a, b) :
       /\ x[1].kind = x[2].kind
       /\ (x[1] = y[1]) <=> (x[2] = y[2])

\* C6 as stated: the second createPipeline call on a graph ends with a
\* printed plan as well, and its jobs are those of the first call up to a
\* renaming of the endpoints.
C6_IdempotentPlanning ==
  runs = 2 /\ pc \in {"done", "raised"} =>
    pc = "done" /\ Isomorphic(prevCommands, commands)

\* C7 as stated: the printed plan launches every declared component exactly
\* once.
C7_EveryNodeLaunched ==
  pc = "done" =>
    \A n \in DOMAIN nodes :
      Cardinality({j \in DOMAIN commands :
                     commands[j].kind = "launch" /\ commands[j].node = n}) = 1

EntrypointLines == {j \in DOMAIN out : out[j].line = "entrypoint"}

\* C8: the printed plan advertises exactly the nodes without incoming edge,
\* with an outgoing edge and with a stdin ingress, each once; the advertised
\* endpoint is the one pool port the node's launch job listens on for its
\* stdin; every advertisement comes before the line that launches the jobs.
C8_Entrypoints ==
  pc = "done" =>
    /\ \A n \in DOMAIN nodes :
         Cardinality({j \in EntrypointLines : out[j].node = n})
           = (IF /\ ~\E e \in DOMAIN edges : edges[e].target = n
                 /\ \E e \in DOMAIN edges : edges[e].source = n
                 /\ nodes[n].stdinName # NoName
              THEN 1 ELSE 0)
    /\ \A j \in EntrypointLines :
         /\ Len(out[j].ports) = 1
         /\ out[j].ports[1].kind = "port"
         /\ out[j].ports[1].port \in Range(taken)
         /\ \E c \in DOMAIN commands :
              /\ commands[c].kind = "launch"
              /\ commands[c].node = out[j].node
              /\ commands[c].listen = out[j].ports
    /\ \A j \in EntrypointLines : \A k \in DOMAIN out :
         out[k].line = "jobs" => j < k

\* C8 witness: a printed plan with an advertised node and with a node that
\* reads stdin and is fed by an edge.
C8_Witness ==
  /\ pc = "done"
  /\ EntrypointLines # {}
  /\ \E e \in DOMAIN edges : nodes[edges[e].target].stdinName = edges[e].to

\* C9: when createPipeline fails in a planning step, it has printed nothing.
C9_NothingPrintedOnFailure ==
  PlanningFailed => out = <<>>

\* C9 witness: the pool ran dry during stream bridging, after proxy
\* insertion had collected a job.
C9_Witness ==
  /\ PlanningFailed /\ err.kind = "ExhaustedPool"
  /\ \E j \in DOMAIN commands : commands[j].kind = "launch"
  /\ \E j \in DOMAIN commands : commands[j].kind = "proxy"

EdgesDeclared ==
  \A e \in DOMAIN edges :
    /\ edges[e].from \in Keys(nodes[edges[e].source].egress)
    /\ edges[e].to \in Keys(nodes[edges[e].target].ingress)
    /\ edges[e].type \in EdgeTypes

RejectedCallKeepsGraph ==
  pc' = "raised" /\ err'.op \in {"addEdge", "addSimpleEdge"} =>
    edges' = edges /\ nodes' = nodes

\* C10: every edge of the graph names an egress its source declares and an
\* ingress its target declares and has a supported type, and an addEdge or
\* addSimpleEdge call that raises leaves nodes and edges as they were.
C10_EdgesDeclared == []EdgesDeclared /\ [][RejectedCallKeepsGraph]_vars

\* C10 witness: addEdge has raised on an input name the target does not
\* declare, on a graph that holds an edge.
C10_Witness ==
  /\ pc = "raised" /\ err.op = "addEdge" /\ err.kind = "UnknownIngress"
  /\ edges # <<>>

\* the edges of E run in a circle through some of its nodes (a self-loop is
\* the circle through one node)
HasCycle(E) ==
  \E S \in SUBSET Range(GraphNodes(E)) :
    /\ S # {}
    /\ \A v \in S : \E i \in DOMAIN E : E[i].target = v /\ E[i].source \in S

LaunchesOf(n) == {j \in DOMAIN commands : commands[j].kind = "launch" /\ commands[j].node = n}
PipesOf(e) == {j \in DOMAIN commands : commands[j].kind = "pipe" /\ commands[j].edge = e}

\* C16 as stated: createPipeline does not fail on a graph because its edges
\* form a directed cycle (a self-loop included); the plan it prints for such
\* a graph has a label on every node, one launch job per node and one wiring
\* job per edge.
C16_CyclesAccepted ==
  HasCycle(edges) =>
    /\ ~(PlanningFailed /\ err.kind = "NetworkXUnfeasible")
    /\ pc = "done" =>
         /\ \A n \in Range(GraphNodes(edges)) :
              nodes[n].label # <<>> /\ Cardinality(LaunchesOf(n)) = 1
         /\ \A e \in DOMAIN edges : Cardinality(PipesOf(e)) = 1

\* the declaration the node n was built from
DeclaredAs(n) == Catalogue[FirstIndex({d \in DOMAIN Catalogue : Catalogue[d].name = nodes[n].name})]

\* the port numbers the declared nodes bind, each with its node, side and name
DeclaredPorts ==
  UNION {{<<n, "ingress", DeclaredAs(n).ingress[i].k, DeclaredAs(n).ingress[i].v.port>> :
            i \in {i \in DOMAIN DeclaredAs(n).ingress : DeclaredAs(n).ingress[i].v.kind = "port"}}
         \cup
         {<<n, "egress", DeclaredAs(n).egress[i].k, DeclaredAs(n).egress[i].v.port>> :
            i \in {i \in DOMAIN DeclaredAs(n).egress : DeclaredAs(n).egress[i].v.kind = "port"}}
         : n \in DOMAIN nodes}

\* no declared port number is a pool port, and a port number is declared
\* twice only as an ingress and an egress of one node
PortsDeclaredApart ==
  \A x, y \in DeclaredPorts :
    /\ x[4] \notin Range(DefaultPool)
    /\ x # y /\ x[4] = y[4] => x[1] = y[1] /\ x[2] # y[2]

OutEdgesFrom(n, name) == {e \in DOMAIN edges : edges[e].source = n /\ edges[e].from = name}
InEdgesTo(n, name) == {e \in DOMAIN edges : edges[e].target = n /\ edges[e].to = name}

\* what _createPipes does from the present state
PipesNow == PipesOver(Planner(nodes, pool, allocated, taken), edges, GraphEdges(edges))

\* in the jobs `cmds`, no two wiring jobs listen on the same endpoint and no
\* two connect to the same endpoint
PipesApart(cmds) ==
  \A i, j \in DOMAIN cmds :
    i # j /\ cmds[i].kind = "pipe" /\ cmds[j].kind = "pipe" =>
      cmds[i].listen # cmds[j].listen /\ cmds[i].connect # cmds[j].connect

\* C20 as stated: when _createPipes runs, every egress list of a node of the
\* graph holds as many endpoints as the egress has outgoing edges, every
\* ingress with an incoming edge holds one; no pop of _createPipes hits an
\* empty list, and no two edges get the same listener or the same connector.
C20_ListsMatchEdges ==
  pc = "bridged" =>
    /\ \A n \in Range(GraphNodes(edges)) :
         /\ \A i \in DOMAIN nodes[n].egress :
              Len(nodes[n].egress[i].v) = Cardinality(OutEdgesFrom(n, nodes[n].egress[i].k))
         /\ \A i \in DOMAIN nodes[n].ingress :
              InEdgesTo(n, nodes[n].ingress[i].k) # {} => Len(nodes[n].ingress[i].v) = 1
    /\ PipesNow.err = NoError
    /\ PipesApart(PipesNow.jobs)

\* C20 amended: the same for the egresses that have an outgoing edge (an
\* egress without one keeps its one declared endpoint), on descriptions
\* whose declared port numbers are apart.
C20_UsedListsMatchEdges ==
  pc = "bridged" /\ PortsDeclaredApart =>
    /\ \A n \in Range(GraphNodes(edges)) :
         /\ \A i \in DOMAIN nodes[n].egress :
              LET k == Cardinality(OutEdgesFrom(n, nodes[n].egress[i].k))
              IN Len(nodes[n].egress[i].v) = (IF k = 0 THEN 1 ELSE k)
         /\ \A i \in DOMAIN nodes[n].ingress :
              InEdgesTo(n, nodes[n].ingress[i].k) # {} => Len(nodes[n].ingress[i].v) = 1
    /\ PipesNow.err = NoError
    /\ PipesApart(PipesNow.jobs)

\* C20 witness: _createPipes is about to run on a graph with two edges from
\* one stdout egress and with an egress that has no edge.
C20_Witness ==
  /\ pc = "bridged" /\ PortsDeclaredApart
  /\ \E n \in Range(GraphNodes(edges)) :
       \E i \in DOMAIN nodes[n].egress :
         /\ nodes[n].egress[i].k = nodes[n].stdoutName
         /\ Cardinality(OutEdgesFrom(n, nodes[n].egress[i].k)) = 2
  /\ \E n \in Range(GraphNodes(edges)) :
       \E i \in DOMAIN nodes[n].egress : OutEdgesFrom(n, nodes[n].egress[i].k) = {}

\* C19 as stated: in a planned graph no two wiring jobs tee to the same log
\* file, whatever the declared names are.
C19_DistinctLogs ==
  pc \in {"wired", "done"} =>
    \A i, j \in DOMAIN commands :
      i # j /\ commands[i].kind = "pipe" /\ commands[j].kind = "pipe" =>
        commands[i].log # commands[j].log

\* C11 as stated: once the grace window after the interrupt has passed, no
\* job of the launched plan is running any more.
C11_InterruptStopsAll ==
  interrupted /\ elapsed >= GraceWindow => started = {}

\* the connectors whose endpoint a job of the plan listens on
ToPlanListener(c) == conn[c].port \in PlanListeners

\* C13 as stated: no connector has held or tried a data connection without
\* a probe of its own having found a listener, no connector has probed twice
\* without a one-second sleep in between, and no data connection was opened
\* on an endpoint without a listener.
C13_ConnectAfterProbe ==
  Running =>
    \A c \in DOMAIN conn :
      /\ conn[c].phase \in {"ready", "open", "refused"} => conn[c].found
      /\ ~conn[c].early
      /\ conn[c].phase # "refused"

\* C13 amended: the same, the last part for the connectors whose endpoint a
\* job of the plan listens on (with nc -lk).
C13_ConnectAfterProbeToPlanListener ==
  Running =>
    \A c \in DOMAIN conn :
      /\ conn[c].phase \in {"ready", "open", "refused"} => conn[c].found
      /\ ~conn[c].early
      /\ ToPlanListener(c) => conn[c].phase # "refused"

\* C13 witness: a connector holds its data connection to a listener of the
\* plan, while another one has probed in vain and slept, and is about to
\* probe a listener that is bound by now.
C13_Witness ==
  /\ Running
  /\ \E c \in DOMAIN conn : ToPlanListener(c) /\ conn[c].phase = "open"
  /\ \E c \in DOMAIN conn :
       /\ ToPlanListener(c) /\ conn[c].phase = "probe" /\ conn[c].gap
       /\ conn[c].port \in bound

\* C12 as stated: a stalled log sink does not hold up the bytes of its edge:
\* whenever bytes wait at the tee of a wiring job and the pipe to its
\* connector has room, the tee can copy, stalled sink or not.
C12_StallDoesNotBlock ==
  Running =>
    \A k \in PipeJobs :
      k \in stalled /\ pipe[k].in > pipe[k].copied
        /\ pipe[k].copied - pipe[k].out < PipeBuffer
      => TeeCanCopy(k)

\* the wiring job behind branch i of the job j
PipeOfBranch(j, i) == ListenerOf(commands[j].connect[i])

\* branch i2 of the job j is full down to its consumer: only that consumer,
\* by taking a byte, makes room for the tee
FullToConsumer(j, i2) ==
  LET k == PipeOfBranch(j, i2)
  IN /\ split[j].w[i2] - pipe[k].in = PipeBuffer
     /\ pipe[k].in - TeeRead(k) = PipeBuffer
     /\ pipe[k].copied - pipe[k].out = PipeBuffer

\* the consumer behind branch i has received all that the tee has written
\* to the branch, more bytes of the producer wait at the tee, and the tee is
\* blocked in its write to a branch that is full down to its consumer
WaitsForOther(j, i) ==
  /\ split[j].w[i] < split[j].src
  /\ pipe[PipeOfBranch(j, i)].out = split[j].w[i]
  /\ NextBranch(j) \notin {0, i}
  /\ FullToConsumer(j, NextBranch(j))

\* C14 as stated: behind a fan-out every consumer has received a prefix of
\* the producer's output, and no consumer waits for bytes that only another
\* consumer can set free (the log sinks accepting writes).
C14_FanOutIndependent ==
  Running /\ stalled = {} =>
    \A j \in SplitJobs : \A i \in Branches(commands[j]) :
      /\ pipe[PipeOfBranch(j, i)].out <= split[j].src
      /\ ~WaitsForOther(j, i)

\* C15 as stated: the bytes in the log of an edge never exceed the bytes its
\* consumer has received.
C15_LogPrefixOfReceived ==
  Running => \A k \in PipeJobs : pipe[k].logged <= pipe[k].out

\* C18 (octocat): for every input, whether selected or not and whatever
\* SELECT has been changed to, the .preview file holds every chunk the input
\* has read, in arrival order: the preview equals all data received so far.
C18_PreviewIsReceived ==
  mainPc # "off" => \A i \in Inputs : preview[i] = received[i]

\* an input that is not read and another that is have both received chunks
\* while a switch is pending
C18_Witness ==
  /\ select2 # NoInput
  /\ \E i \in Inputs : ~read[i] /\ Len(received[i]) >= 2 /\ preview[i] = <<1, 2>>
  /\ \E j \in Inputs : read[j] /\ received[j] # <<>>

\* a chunk arrives on input i in this step
Arrives(i) == received'[i] # received[i]

\* C17 (octocat), as claimed: after SELECT has changed from input A to input
\* B, the output switches to B at the next polling interval, and until B has
\* produced data the bytes that keep arriving on A are still copied to
\* standard output: while the switch is pending and B has received nothing,
\* a chunk arriving on A is enqueued for output.
C17_OldInputContinues ==
  [][(select2 # NoInput /\ received[select2] = <<>> /\ Arrives(select))
       => queue'[select] # queue[select]]_vars

\* the switch of main: select becomes another input
Switches == select # NoInput /\ select' # select

\* C17 (octocat), as the code has it: once main has noticed that SELECT
\* names another input B, A's read flag is off and B's is on; from then on
\* a chunk arriving on A goes to A's preview only, whether or not B has
\* produced data; main switches to the pending input, and only at a timeout
\* of A's queue, when all that A had enqueued has been written.
C17_OldInputStopsAtNotice ==
  /\ [](select2 # NoInput => ~read[select] /\ read[select2])
  /\ [][(select2 # NoInput /\ Arrives(select))
          => /\ queue'[select] = queue[select]
             /\ output' = output
             /\ preview'[select] = Append(preview[select], Len(received[select]) + 1)]_vars
  /\ [][Switches => /\ select2 # NoInput
                    /\ select' = select2
                    /\ queue[select] = <<>>
                    /\ output' = output]_vars

\* main has switched from "a" to "b" although "b" has produced nothing, and
\* the second chunk of "a", which came while the switch was pending, was
\* neither written nor enqueued
C17_Witness ==
  /\ select = "b" /\ select2 = NoInput
  /\ received["b"] = <<>>
  /\ received["a"] = <<1, 2>> /\ preview["a"] = <<1, 2>>
  /\ output = <<Chunk("a", 1)>>
  /\ queue["a"] = <<>>

\* the inputs whose read flag is set
Reading == {i \in Inputs : read[i]}

\* C22 (octocat): whatever SELECT is changed to, and also when it is changed
\* back or on to a third input while a switch is pending, exactly one input
\* has its read flag set, and it is the input main is draining or the input
\* of the pending switch; so main never drains an input whose read flag is
\* off while another input enqueues chunks that are never written.
C22_OneInputRead ==
  mainPc \in {"get", "check"} =>
    /\ Cardinality(Reading) = 1
    /\ Reading \subseteq {select, select2}

\* C23 (octocat): after a KeyboardInterrupt in main's loop every input
\* thread stops and main returns, for socket inputs without a connection,
\* socket inputs with an idle open connection, and a stdin input: once main
\* is in its joins, a thread that has not ended is able to end, and main
\* does not wait for a thread that cannot.
C23_InterruptEndsThreads ==
  mainPc = "join" =>
    \A i \in Inputs : thread[i] = "ended" \/ ENABLED ThreadStops(i)

\* what _createProxies does from the present state
ProxiesNow == CreateProxiesOver(Planner(nodes, pool, allocated, taken), edges, order)

\* the outputs of node n that have an out-edge and are bound to an endpoint
\* one of n's inputs is bound to
AliasedOutputs(n) ==
  {i \in DOMAIN nodes[n].egress :
     /\ OutEdgesFrom(n, nodes[n].egress[i].k) # {}
     /\ nodes[n].egress[i].v # <<>>
     /\ nodes[n].egress[i].v[1] \in Range(Values(nodes[n].ingress))}

\* the endpoints `st` has taken from the pool beyond those taken before
FreshIn(st) == {Port(st.taken[i]) : i \in (Len(taken) + 1)..Len(st.taken)}

\* C21: in _createProxies, for every output with count >= 1 out-edges that
\* is bound to the endpoint of one of the node's inputs, the planner takes
\* one fresh endpoint for that input and count fresh endpoints for the
\* output, rewrites both bindings so that neither is the shared port, and
\* emits exactly one bridging job; also when several outputs of the node are
\* bound to that port or several inputs are.
C21_AliasBridged ==
  pc = "labelled" /\ ProxiesNow.err.kind # "ExhaustedPool" =>
    \A n \in Range(order) : \A i \in AliasedOutputs(n) :
      LET st     == ProxiesNow
          shared == nodes[n].egress[i].v[1]
          count  == Cardinality(OutEdgesFrom(n, nodes[n].egress[i].k))
          outs   == st.nodes[n].egress[i].v
      IN /\ st.err = NoError
         /\ Len(outs) = count
         /\ Range(outs) \subseteq FreshIn(st) \ {shared}
         /\ \E j \in DOMAIN nodes[n].ingress :
              /\ shared \in Range(nodes[n].ingress[j].v)
              /\ Len(st.nodes[n].ingress[j].v) = 1
              /\ st.nodes[n].ingress[j].v[1] \in FreshIn(st) \ {shared}
         /\ Cardinality({j \in DOMAIN st.jobs :
                           /\ st.jobs[j].kind = "proxy"
                           /\ st.jobs[j].node = n
                           /\ st.jobs[j].connect = <<shared>> \o outs}) = 1

====
